---- MODULE Spec2Model ----
(***************************************************************************)
(* docci: the run driver (main.py do_logic), the block engine              *)
(* (managers/core.py, managers/cmd.py), the process runner (execute.py)    *)
(* and the process registry (processes_manager.py).                        *)
(*                                                                         *)
(* Strings are abstracted to the set of features the code tests: a string  *)
(* is a set of tokens, {} is the empty string, "t" is ordinary text,       *)
(* "Error:" is the literal the engine searches for, "needle" is the value  *)
(* of output_contains.  Concatenation and join are union, `x in s` is      *)
(* membership, truthiness is non-emptiness.                                *)
(*                                                                         *)
(* The loops of the driver and of the engine (paths, files, blocks,        *)
(* command lines) carry no index the code reads, so the lists are drawn    *)
(* element by element as the loops reach them and may have any length.     *)
(***************************************************************************)
EXTENDS Integers, Sequences, FiniteSets, TLC

\* ---------------------------------------------------------------- bounds
\* largest docci-retry value of a block
MaxRetry == 1
\* most background processes registered at a time
MaxProcs == 2
\* largest max_timeout of an endpoint, in clock ticks
MaxTimeout == 4
\* largest polling interval, in clock ticks
MaxSpeed == 3
\* most tokens on the info line of a fence
MaxParts == 2
\* most characters in the value of the first tag handed to extract_tag_value
MaxValueLen == 3
\* most characters in the value of a further tag
MaxTailLen == 1
\* most lines of the target file of a file operation before it is applied
MaxLines == 3
\* largest whole number of seconds written in a delay tag
MaxDelay == 1
\* most lines a background child prints
MaxOut == 2

\* ---------------------------------------------------------------- values
None  == "None"
Unset == "unset"
Keys  == {"FOO"}
Vals  == {"a", "b"}

EmptyStr == {}
Txt      == {"t"}
ErrTok   == "Error:"
Needle   == "needle"
InvalidTagTok == "Invalid tag found"
\* what a child can print: nothing, text, text with "Error:", text with the needle
Outputs  == {EmptyStr, Txt, Txt \cup {ErrTok}, Txt \cup {Needle}}
Truthy(s) == s # {}

EnvMaps  == [Keys -> Vals \cup {Unset}]
NoEnv    == [k \in Keys |-> Unset]

\* dict.update(d)
update(env, d) == [k \in Keys |-> IF d[k] # Unset THEN d[k] ELSE env[k]]

\* execute.py dict_diff: keys added by `after`, and keys whose value changed
dict_diff_added_only(before, after) ==
    [k \in Keys |-> IF before[k] = Unset /\ after[k] # Unset THEN after[k] ELSE Unset]
dict_diff(before, after) ==
    [k \in Keys |->
        IF before[k] = Unset /\ after[k] # Unset THEN after[k]
        ELSE IF before[k] # Unset /\ after[k] # Unset /\ before[k] # after[k] THEN after[k]
        ELSE Unset]

\* ---------------------------------------------------------------- commands
\* A command line of a block, by the form the engine recognises; subst says that
\* the value of an export is a command substitution, `export K=$(cmd)`.
Kinds == {"plain", "export", "standalone", "inline", "source"}
SkipCmd == [skip |-> TRUE, kind |-> "plain", key |-> "FOO", val |-> "a", excl |-> FALSE, invalid |-> FALSE, subst |-> FALSE]
Commands ==
    {SkipCmd}
    \cup {[skip |-> FALSE, kind |-> "plain", key |-> "FOO", val |-> "a", excl |-> e, invalid |-> FALSE, subst |-> FALSE] : e \in BOOLEAN}
    \cup {[skip |-> FALSE, kind |-> kd, key |-> "FOO", val |-> "a", excl |-> FALSE, invalid |-> TRUE, subst |-> FALSE] :
            kd \in {"plain", "source"}}
    \cup {[skip |-> FALSE, kind |-> "export", key |-> k, val |-> v, excl |-> TRUE, invalid |-> FALSE, subst |-> FALSE] : k \in Keys, v \in Vals}
    \cup {[skip |-> FALSE, kind |-> "export", key |-> k, val |-> v, excl |-> TRUE, invalid |-> FALSE, subst |-> TRUE] : k \in Keys, v \in Vals}
    \cup {[skip |-> FALSE, kind |-> kd, key |-> k, val |-> v, excl |-> FALSE, invalid |-> FALSE, subst |-> FALSE] :
            kd \in {"standalone", "inline", "source"}, k \in Keys, v \in Vals}

\* execute.py parse_env: export KEY=VALUE, KEY=VALUE cmd, KEY=VALUE; anything else gives {}
parse_env_none(c) == NoEnv
parse_env(c) ==
    IF c.kind \in {"export", "inline", "standalone"}
    THEN [k \in Keys |-> IF k = c.key THEN c.val ELSE Unset]
    ELSE NoEnv

\* execute.py:116-145,164-165  parse_env hands the value of an export to
\* execute_substitution_commands, which runs each `cmd` or $(cmd) in it with
\* execute_command: the number of runs
execute_substitution_commands(c) == IF c.subst THEN 1 ELSE 0

\* execute.py:52,61  the line is run as bash -c "<line>": the shell evaluates the
\* substitutions that are in it: the number of runs
shell_substitutions(c) == IF c.subst THEN 1 ELSE 0

\* cmd.py _should_skip_cmd_execution: empty line, comment, or listed in ignore_commands
should_skip_cmd_execution(c) == c.skip

\* cmd.py _should_run_in_background
should_run_in_background(background, c) == background /\ ~c.excl

\* execute.py validate_command
validate_command(c) == c.invalid

\* cmd.py: max_attempts = max(1, retry_count + 1)
max_attempts_off_by_one(retry_count) == IF retry_count > 1 THEN retry_count ELSE 1
max_attempts(retry_count) == IF retry_count + 1 > 1 THEN retry_count + 1 ELSE 1

\* execute.py:93-95  `if isSource: return 0, ""`: the status reported for a source
\* command whose shell exited with st
source_status_real(st) == st
source_status(st) == "0"

\* pexpect.run blocks until the child exits; a background spawn does not
waits_for_exit_never(cmd_background) == FALSE
waits_for_exit(cmd_background) == ~cmd_background

\* execute.py:110-114, processes_manager.py:14-18  the started StreamingProcess is
\* added to the registry (pexpect.spawn returns with a pid, or raises)
add_process_never(procs) == procs
add_process(procs) == procs \cup {Cardinality(procs) + 1}

\* processes_manager.py cleanup / main.py cleanup_background_processes:
\* stop every entry (errors swallowed), then clear
cleanup_no_clear(procs) == procs
cleanup(procs) == {}

\* processes_manager.py:27-39, main.py:324-330  the entries the cleanup loop tries
\* to stop, given the entries whose stop attempt raises OSError: the try statement
\* is inside the loop, so a failure is caught and the loop goes on with the next
\* entry (entries are taken in insertion order, which is their numbering)
stop_attempts_until_failure(procs, failing) ==
    {p \in procs : \A q \in failing : p <= q}
stop_attempts(procs, failing) == procs

\* The list all_outputs is kept as its truth value and its join, the two things the
\* code reads from it (cmd.py:88-90).
NoOutputs == [any |-> FALSE, joined |-> {}]
\* all_outputs.append(output)
append(outs, output) == [any |-> TRUE, joined |-> outs.joined \cup output]
\* "\n".join(all_outputs)
join(outs) == outs.joined

\* ---------------------------------------------------------------- blocks
Blocks == [background: BOOLEAN, output_contains: BOOLEAN, expect_failure: BOOLEAN,
           retry_count: 0..MaxRetry, replace_text: BOOLEAN]
NoBlock == [background |-> FALSE, output_contains |-> FALSE, expect_failure |-> FALSE,
            retry_count |-> 0, replace_text |-> FALSE, ran |-> FALSE]
Ran(b) == [background |-> b.background, output_contains |-> b.output_contains,
           expect_failure |-> b.expect_failure, retry_count |-> b.retry_count,
           replace_text |-> b.replace_text, ran |-> TRUE]

NoCmd == [kind |-> None, invalid |-> FALSE, key |-> "FOO", val |-> "a", bg |-> FALSE, env |-> NoEnv,
          subst |-> FALSE]
\* cmd.py:204-230  the skip gates of a block, in the order they are tested
Gates == {"ignored", "if_file_not_exists", "machine_os", "binary"}

\* core.py:13-21  what CodeBlockCore.run_commands reads from a parsed block:
\*   endpoint   None without docci-wait-for-endpoint, else how its poll ends
\*   file_name  docci-file is given
\*   file_skip  FileOperations._should_skip_execution holds for the file
\*   executor   the language is a scripting language (parsing.py:150-162)
\*   gate       the skip gate that holds, None when none does
Cores == [endpoint: {None, "up", "down"}, file_name: BOOLEAN, file_skip: BOOLEAN,
          executor: BOOLEAN, gate: Gates \cup {None}]

NoCore == [gate |-> FALSE, polled |-> FALSE, up |-> FALSE, wrote |-> FALSE, executor |-> FALSE]

\* core.py:35  `if self.command_executor:`
has_executor_always(c) == TRUE
has_executor(c) == c.executor

\* file_operations.py:18-53  TRUE when the file was written
handle_file_content(c) == c.file_name /\ ~c.file_skip

\* core.py:32-33  `if self.file_ops and self.file_ops.handle_file_content(config):
\* return ""`: an applied file operation ends the block
returns_after_file_op_never(applied) == FALSE
returns_after_file_op(applied) == applied

\* cmd.py:204-230
should_skip_codeblock_execution(c) == c.gate # None

NoTmp == [status |-> None, out |-> {}, exited |-> FALSE, real |-> None]
NoRet == [kind |-> None, err |-> {}]
NoSpawn == <<>>
\* noAddSince outlives the path: the registry was cleaned up earlier in this run
\* and nothing has been added to it since; again: the cleanup was such a repeat
NoTeardown == [drained |-> FALSE, stopped |-> 0, failed |-> FALSE,
               cleaned |-> FALSE, inOrder |-> FALSE,
               noAddSince |-> FALSE, again |-> FALSE]

\* ---------------------------------------------------------------- file operations
\* A file is the sequence of its lines, each ending in a newline.  A line is
\* <<"file", i>>, the i-th line the file had at first, or <<"content", j>>, the
\* j-th line of the block's content.  An optional field is a sequence: empty when
\* the field is None.
Min(a, b) == IF a < b THEN a ELSE b
Max(a, b) == IF a > b THEN a ELSE b

\* sequences over S of length at most n
SeqsUpTo(S, n) == UNION {[1..k -> S] : k \in 0..n}

\* file_operations.py:28  content_with_newline, as lines: a block of one or two lines
Contents == {<<<<"content", 1>>>>, <<<<"content", 1>>, <<"content", 2>>>>}

\* a file of n lines that has not been touched
OriginalFile(n) == [i \in 1..n |-> <<"file", i>>]

\* file_operations.py:10-17  file_name: whether docci-file is given;
\* insert_at_line: <<N>>; replace_lines: <<start>> for (start, None) or
\* <<start, end>>, as replace_at_line_converter returns them (parsing.py:179-183)
FileOperationsSet ==
    [file_name : BOOLEAN,
     content : Contents,
     insert_at_line : {<<>>} \cup {<<n>> : n \in (0 - MaxLines - 1)..(MaxLines + 1)},
     replace_lines : {<<>>} \cup {<<a>> : a \in 0..(MaxLines + 1)}
                            \cup {<<a, b>> : a \in 0..(MaxLines + 1), b \in 0..(MaxLines + 1)},
     file_reset : BOOLEAN,
     if_file_not_exists : BOOLEAN]

NoFileOperations ==
    [file_name |-> FALSE, content |-> <<<<"content", 1>>>>, insert_at_line |-> <<>>,
     replace_lines |-> <<>>, file_reset |-> FALSE, if_file_not_exists |-> FALSE]

\* file_operations.py:38-39  f.readlines(): one string per line
readlines(f) == [i \in 1..Len(f) |-> <<f[i]>>]

\* file_operations.py:52  ''.join(lines)
RECURSIVE joined(_)
joined(ls) == IF ls = <<>> THEN <<>> ELSE Head(ls) \o joined(Tail(ls))

\* list.insert(index, x) for 0 <= index <= len(list)
list_insert(ls, index, x) ==
    SubSeq(ls, 1, index) \o <<x>> \o SubSeq(ls, index + 1, Len(ls))

\* list[start:end] = [x] for start, end >= 0
slice_assign(ls, start, end, x) ==
    LET from == Min(start, Len(ls))
        to   == Max(Min(end, Len(ls)), from)
    IN SubSeq(ls, 1, from) \o <<x>> \o SubSeq(ls, to + 1, Len(ls))

\* file_operations.py:57-62  _should_skip_execution: the tag is set and the
\* target file itself exists
should_skip_execution(self, target_exists) == self.if_file_not_exists /\ target_exists

\* file_operations.py:30  `if not os.path.exists(file_path) or self.file_reset`
refreshes_missing_only(self, target_exists) == ~target_exists
refreshes(self, target_exists) == ~target_exists \/ self.file_reset

\* file_operations.py:41-46  the index handed to lines.insert
insert_index(n, len) ==
    LET insert_line == IF n > 0 THEN n ELSE len + n + 1
    IN Max(0, Min(insert_line, len))

\* file_operations.py:67  start = start - 1 if start > 0 else 0
start_index_one_off(start) == start
start_index(start) == IF start > 0 THEN start - 1 ELSE 0

\* file_operations.py:64-81  _replace_lines
replace_lines_in(ls, replace_lines, content) ==
    IF replace_lines = <<>> THEN ls
    ELSE LET start == start_index(replace_lines[1])
             \* end = end - 1 if end and end > 0 else None; then `if end:`
             end_given == Len(replace_lines) = 2 /\ replace_lines[2] > 0
                             /\ replace_lines[2] - 1 # 0
             end == IF end_given THEN replace_lines[2] - 1 ELSE 0
         IN IF end_given
            THEN slice_assign(ls, start, IF end >= Len(ls) THEN Len(ls) ELSE end, content)
            ELSE IF start >= Len(ls)
                 THEN Append(ls, content)
                 ELSE [ls EXCEPT ![start + 1] = content]

\* ---------------------------------------------------------------- tags
\* A token of an info line is kept as its three parts: whether it starts with
\* TAGS_PREFIX ('docci-'), the text after the prefix up to the first '=', and
\* whether an '=value' follows.  `bash` is [pre |-> FALSE, name |-> "bash", ...],
\* `docci-os=linux` is [pre |-> TRUE, name |-> "os", val |-> TRUE].
Token(pre, name, val) == [pre |-> pre, name |-> name, val |-> val]
NoTag == Token(FALSE, "", FALSE)

\* models.py:48-66  the values of the members of the enum Tags, without the prefix;
\* the first one is the member TAGS_PREFIX itself
TAGS_PREFIX == ""
Tags ==
    {TAGS_PREFIX, "ignore", "background", "delay-after", "delay-per-cmd",
     "wait-for-endpoint", "if-not-installed", "output-contains", "assert-failure",
     "os", "if-file-not-exists", "file", "line-insert", "line-replace", "reset-file"}

\* models.py:95-101  the canonical tags: every member but TAGS_PREFIX
get_all_tags == Tags \ {TAGS_PREFIX}

\* models.py:75-93  alias -> canonical tag
get_aliases ==
    {<<"contains-output", "output-contains">>, <<"expected-output", "output-contains">>,
     <<"contains", "output-contains">>, <<"after-delay", "delay-after">>,
     <<"cmd-delay", "delay-per-cmd">>, <<"expect-failure", "assert-failure">>,
     <<"should-fail", "assert-failure">>, <<"machine", "os">>, <<"bg", "background">>,
     <<"file-name", "file">>, <<"insert-at-line", "line-insert">>,
     <<"replace-at-line", "line-replace">>, <<"insert-line", "line-insert">>,
     <<"replace-line", "line-replace">>}

\* parsing.py:21  `Tags.TAGS_PREFIX() not in tag`
contains_prefix(tag) == tag.pre

\* parsing.py:22, models.py:214-215  tag.split('=')[0]
strip_value(tag) == Token(tag.pre, tag.name, FALSE)

\* models.py:211-222  the stripped tag equals the value of a member of Tags
\* (TAGS_PREFIX is one of them) or is a key of the alias table
is_valid(tag) ==
    LET t == strip_value(tag)
    IN \/ \E member \in Tags : t = Token(TRUE, member, FALSE)
       \/ \E a \in get_aliases : t = Token(TRUE, a[1], FALSE)

\* config.py:8,19  ScriptingLanguages, the default of followed_languages
ScriptingLanguages == {"shell", "bash", "sh", "zsh", "ksh"}

\* models.py:142-155, 231-237  the tag itself and its aliases
possible_tags_without_aliases(tag_type) == {tag_type}
possible_tags(tag_type) ==
    {tag_type} \cup {a[1] : a \in {b \in get_aliases : b[2] = tag_type}}

\* models.py:224-238  the tag or one of its aliases is in the list, as it stands
has_tag(tags, tag) ==
    \E i \in 1..Len(tags) : \E n \in possible_tags(tag) : tags[i] = Token(TRUE, n, FALSE)

\* models.py:157-198  the value of the first tag that starts with `tag_type=` or
\* `alias=`; the text of a value is not kept, "v" stands for it
extract_tag_value(tags, tag_type, default) ==
    IF \E i \in 1..Len(tags) :
          tags[i].pre /\ tags[i].val /\ tags[i].name \in possible_tags(tag_type)
    THEN "v" ELSE default

\* parsing.py:108-173  the fields of FileOperations, DelayManager, CommandExecutor
\* and CodeBlockCore that are read from the info line (config is given and has
\* the default followed_languages)
typed_fields(parts, tags) ==
    LET language == IF Len(parts) > 0 THEN parts[1] ELSE NoTag
        scripting == ~language.pre /\ language.name \in ScriptingLanguages
    IN [ignored            |-> (\E i \in 1..Len(tags) : tags[i] = Token(TRUE, "ignore", FALSE))
                                  \/ ~scripting,
        file_name          |-> extract_tag_value(tags, "file", None),
        insert_at_line     |-> extract_tag_value(tags, "line-insert", None),
        replace_lines      |-> extract_tag_value(tags, "line-replace", None),
        file_reset         |-> has_tag(tags, "reset-file"),
        if_file_not_exists |-> extract_tag_value(tags, "if-file-not-exists", ""),
        post_delay         |-> extract_tag_value(tags, "delay-after", "0"),
        cmd_delay          |-> extract_tag_value(tags, "delay-per-cmd", "0"),
        command_executor   |-> scripting,
        background         |-> has_tag(tags, "background"),
        output_contains    |-> extract_tag_value(tags, "output-contains", None),
        expect_failure     |-> has_tag(tags, "assert-failure"),
        machine_os         |-> extract_tag_value(tags, "os", None),
        binary             |-> extract_tag_value(tags, "if-not-installed", None),
        endpoint           |-> extract_tag_value(tags, "wait-for-endpoint", None)]

NoValue == typed_fields(<<>>, <<>>)

\* The text of a number: its digits before the point and, when it has a point,
\* the one digit after it.  "1" is [whole |-> 1, tenths |-> <<>>], "0.5" is
\* [whole |-> 0, tenths |-> <<5>>].
NumberTexts == [whole : 0..MaxDelay, tenths : {<<>>, <<0>>, <<5>>}]
NoText == [whole |-> 0 - 1, tenths |-> <<>>]

\* parsing.py:134-135  converter=int: int() of a string takes digits only
int_accepts(text) == text.tenths = <<>>
int(text) == text.whole

\* the number a text denotes, in tenths
tenths_of(text) == 10 * text.whole + (IF text.tenths = <<>> THEN 0 ELSE text.tenths[1])

\* the tokens info lines are made of: every member and alias, three names that
\* are neither, each with and without a value, and two words without the prefix
TagNames == Tags \cup {a[1] : a \in get_aliases} \cup {"retry", "replace-text", "bogus"}
Tokens ==
    {Token(TRUE, n, v) : n \in TagNames, v \in BOOLEAN}
        \cup {Token(FALSE, w, FALSE) : w \in {"bash", "text"}}

VARIABLES
    pc,                   \* position of the main thread
    ret,                  \* value returned by do_logic
    pending,              \* how the try body was left: "return" (a return statement is
                          \* pending), "next" (it ran to its end), "interrupted" (the
                          \* KeyboardInterrupt handler ran)
    blk,                  \* the CommandExecutor being run
    cmd, attempt, tmp,
    had_error, response, last_output, all_outputs,
    lastCore,             \* history: what the latest CodeBlockCore.run_commands did before
                          \* its executor (forgotten once the command loop is under way)
    blockRes,             \* value returned by CodeBlockCore.run_commands
    os_environ,           \* os.environ
    background_processes, \* process registry
    running,              \* a foreground child is running
    lastSpawned,          \* history: environment given to the child just spawned
    spawns,               \* history: spawns of the current command
    subst_runs,           \* history: runs of the command substituted in the current command
    expectedEnv,          \* history: last value assigned to each key by a command
    statuses,             \* history: how the commands of the block ended, other than by
                          \* exit 0: "1" exit non-zero on the last attempt, "None" killed
                          \* by a signal, "error" rejected before any spawn, "failed"
                          \* _execute_command returned the failure of a foreground
                          \* child's last attempt while expect_failure was unset
    lastEnded,            \* history: between two commands, how the latest command that
                          \* was executed returned: "early0" on exit 0 with attempts
                          \* remaining, else "other"
    teardown,             \* history: what the finally clause of the current path has done
    spawned_any,          \* history: a command of a block has been spawned in this run
    \* Endpoint.poll (models.py:32-46), time in clock ticks
    max_timeout,          \* self.max_timeout
    poll_speed,           \* the polling interval
    elapsed,              \* time.time() - start_time
    poll_attempt,         \* attempt
    yielded,              \* the values the generator has produced so far (their first parts)
    ppc,                  \* position in poll
    \* process_language_parts (parsing.py:13-60)
    language_parts,       \* the tokens of the info line of a fence
    raw_tags,             \* language_parts[1:]
    tag_i,                \* position of the validation loop in raw_tags
    invalid_tag,          \* the tag named by the ValueError
    processed_tags,       \* the list returned
    value,                \* the typed fields of the CodeBlockCore built from the fence
    delay_texts,          \* the values written in the delay tags of the fence
    delay_manager,        \* DelayManager(post_delay, cmd_delay), in tenths of a second
    qpc,                  \* position in process_language_parts
    \* Tags.extract_tag_value (models.py:136-202)
    ex_tags,              \* tags: each the name before '=' and the characters after it
    ex_t,                 \* position of the loop over tags
    ex_value,             \* value
    ex_i,                 \* i, counted from 1
    quote_char,
    processed_value,
    matching_tags,
    extracted,            \* the value returned
    xpc,                  \* position in extract_tag_value
    \* FileOperations.handle_file_content (file_operations.py:19-81)
    fo,                   \* self: the fields of the FileOperations
    marker_exists,        \* the path that the value of if_file_not_exists names exists
    file_exists,          \* os.path.exists(file_path)
    file,                 \* the lines of the file at file_path
    lines,                \* lines: a list of strings, each of one or more lines
    fo_returns,           \* history: the values returned by the calls so far
    file_before,          \* history: file_exists and file when the current call began
    file_after_first,     \* history: file after the first call
    fpc,                  \* position in handle_file_content
    \* CommandExecutor._execute_command, the retry loop (cmd.py:145-202)
    retry_count,          \* self.retry_count
    cmd_delay,            \* self.delay_manager.cmd_delay, <<>> when there is no delay_manager
    retry_attempt,        \* attempt
    retry_status,         \* status of the attempt just made
    self_expect_failure,  \* self.expect_failure
    retry_returns,        \* the first part (success) of the value returned, once returned
    last_sleep,           \* history: the seconds slept since the latest attempt returned
    all_sleeps,           \* history: every time.sleep of the call so far
    rpc,                  \* position in _execute_command
    \* StreamingProcess (streaming.py:11-89): the main thread, the read thread, the
    \* consume thread and the child
    is_running,           \* self.is_running
    output_queue,         \* self.output_queue
    printed,              \* the lines the child has printed that readline has not returned
    child_lines,          \* history: how many lines the child has printed
    child_exited,         \* the child has exited, or was terminated by close(force=True)
    closes,               \* history: how often self.process.close(force=True) was invoked
    line,                 \* line of _read_output, <<>> when it holds none
    lines_read,           \* history: the lines readline has returned
    consumed,             \* history: the lines passed to consumer_function
    stops_returned,       \* history: a call of stop() has returned
    read_pc,              \* position of the read thread
    consume_pc,           \* position of the consume thread
    main_pc               \* position of the main thread

vars == <<pc, ret, pending, blk, cmd, attempt, tmp, had_error, response, last_output,
          all_outputs, lastCore, blockRes, os_environ, background_processes, running, lastSpawned,
          spawns, subst_runs, expectedEnv, statuses, lastEnded, teardown, spawned_any,
          max_timeout, poll_speed, elapsed, poll_attempt, yielded, ppc,
          language_parts, raw_tags, tag_i, invalid_tag, processed_tags, value,
          delay_texts, delay_manager, qpc,
          ex_tags, ex_t, ex_value, ex_i, quote_char, processed_value, matching_tags,
          extracted, xpc,
          fo, marker_exists, file_exists, file, lines, fo_returns, file_before,
          file_after_first, fpc,
          retry_count, cmd_delay, retry_attempt, retry_status, self_expect_failure,
          retry_returns, last_sleep, all_sleeps, rpc,
          is_running, output_queue, printed, child_lines, child_exited, closes, line,
          lines_read, consumed, stops_returned, read_pc, consume_pc, main_pc>>

pollVars   == <<max_timeout, poll_speed, elapsed, poll_attempt, yielded, ppc>>
parseVars  == <<language_parts, raw_tags, tag_i, invalid_tag, processed_tags, value,
                delay_texts, delay_manager, qpc>>
extractVars == <<ex_tags, ex_t, ex_value, ex_i, quote_char, processed_value,
                 matching_tags, extracted, xpc>>
fileVars   == <<fo, marker_exists, file_exists, file, lines, fo_returns, file_before,
                file_after_first, fpc>>
retryVars  == <<retry_count, cmd_delay, retry_attempt, retry_status, self_expect_failure,
                retry_returns, last_sleep, all_sleeps, rpc>>
streamVars == <<is_running, output_queue, printed, child_lines, child_exited, closes,
                line, lines_read, consumed, stops_returned, read_pc, consume_pc, main_pc>>
auxVars    == <<pollVars, parseVars, extractVars, fileVars, retryVars, streamVars>>
driverVars == <<ret, pending>>
engineVars == <<blk, cmd, attempt, tmp, had_error, response, last_output, all_outputs,
                lastCore, blockRes, statuses, lastEnded>>
procVars   == <<background_processes, running, lastSpawned, spawns, subst_runs>>
envVars    == <<os_environ, expectedEnv>>
mainVars   == <<pc, driverVars, engineVars, procVars, envVars, teardown, spawned_any>>

\* no poll is under way
PollAtRest ==
    /\ max_timeout = 0 /\ poll_speed = 1 /\ elapsed = 0 /\ poll_attempt = 1
    /\ yielded = <<>> /\ ppc = "off"

\* no info line is being parsed
ParseAtRest ==
    /\ language_parts = <<>> /\ raw_tags = <<>> /\ tag_i = 1
    /\ invalid_tag = NoTag /\ processed_tags = <<>> /\ qpc = "off"
    /\ value = NoValue
    /\ delay_texts = [post |-> NoText, cmd |-> NoText]
    /\ delay_manager = [post_delay |-> 0, cmd_delay |-> 0]

\* no tag value is being extracted
ExtractAtRest ==
    /\ ex_tags = <<>> /\ ex_t = 1 /\ ex_value = <<>> /\ ex_i = 1
    /\ quote_char = None /\ processed_value = <<>> /\ matching_tags = <<>>
    /\ extracted = <<>> /\ xpc = "off"

\* no file operation is under way
FileAtRest ==
    /\ fo = NoFileOperations /\ marker_exists = FALSE
    /\ file_exists = FALSE /\ file = <<>> /\ lines = <<>>
    /\ fo_returns = <<>> /\ file_before = <<FALSE, <<>>>> /\ file_after_first = <<>>
    /\ fpc = "off"

\* no retry loop is being followed
RetryAtRest ==
    /\ retry_count = 0 /\ cmd_delay = <<>> /\ retry_attempt = 0
    /\ retry_status = None /\ self_expect_failure = FALSE /\ retry_returns = <<>>
    /\ last_sleep = <<>> /\ all_sleeps = <<>> /\ rpc = "off"

\* no StreamingProcess has been started
StreamAtRest ==
    /\ is_running = FALSE /\ output_queue = <<>> /\ printed = <<>> /\ child_lines = 0
    /\ child_exited = FALSE /\ closes = 0 /\ line = <<>> /\ lines_read = <<>>
    /\ consumed = <<>> /\ stops_returned = FALSE
    /\ read_pc = "off" /\ consume_pc = "off" /\ main_pc = "off"

\* main.py:26  entry of do_logic
DriverInit ==
    /\ pc = "pre"
    /\ ret = NoRet /\ pending = None
    /\ blk = NoBlock /\ cmd = NoCmd /\ attempt = 0 /\ tmp = NoTmp
    /\ had_error = FALSE /\ response = {} /\ last_output = {} /\ all_outputs = NoOutputs
    /\ lastCore = NoCore /\ blockRes = {}
    /\ os_environ \in EnvMaps
    /\ background_processes = {}
    /\ running = FALSE
    /\ lastSpawned = NoSpawn /\ spawns = 0 /\ subst_runs = 0
    /\ expectedEnv = NoEnv
    /\ statuses = {}
    /\ lastEnded = None
    /\ teardown = NoTeardown
    /\ spawned_any = FALSE

Init ==
    /\ DriverInit
    /\ StreamAtRest
    /\ RetryAtRest
    /\ PollAtRest
    /\ ParseAtRest
    /\ ExtractAtRest
    /\ FileAtRest

ResetEngine ==
    /\ blk' = NoBlock /\ cmd' = NoCmd /\ attempt' = 0 /\ tmp' = NoTmp
    /\ had_error' = FALSE /\ response' = {} /\ last_output' = {} /\ all_outputs' = NoOutputs
    /\ blockRes' = {} /\ statuses' = {} /\ spawns' = 0 /\ lastSpawned' = NoSpawn
    /\ subst_runs' = 0
    /\ lastEnded' = None
    /\ lastCore' = NoCore

\* the except clauses of do_logic leave the try body for its finally clause
EnterFinally(r, pend) ==
    /\ pc' = "finally"
    /\ ret' = r
    /\ pending' = pend
    /\ running' = FALSE
    /\ ResetEngine

\* main.py:43,47  f"Error({parentPathKey},{file_paths}): {err}"
Err(e) == [kind |-> "Error", err |-> e]

\* main.py:42  `if err:`
is_fatal_never(err) == FALSE
is_fatal(err) == Truthy(err)

\* cmd.py:64-76  what run_commands does with the (success, output) of one command;
\* isNone says that output is None (background command)
HandleResult(success, output, isNone) ==
    /\ cmd' = NoCmd /\ attempt' = 0 /\ spawns' = 0 /\ subst_runs' = 0
    /\ last_output' = IF isNone THEN {} ELSE output
    /\ all_outputs' = IF isNone THEN all_outputs ELSE append(all_outputs, output)
    /\ had_error' = (had_error \/ ~success)
    /\ IF ~success /\ Truthy(output) /\ ErrTok \in output
       THEN response' = output /\ pc' = "post"
       ELSE response' = response /\ pc' = "cmd"

\* delay.py:17-22  handle_delay: time.sleep is called
handle_delay(seconds) == seconds > 0

\* cmd.py:99-108  _handle_retry_cmd_delay(attempt): the seconds given to
\* time.sleep, <<>> when it returns without sleeping
handle_retry_cmd_delay(attempt_no, delay) ==
    IF attempt_no = 1
    THEN <<>>
    ELSE <<IF delay # <<>> /\ delay[1] > 0 THEN delay[1] ELSE 2>>

\* ---------------------------------------------------------------- driver
\* main.py:27, config.py:58-63  config.run_pre_cmds: every pre command runs in the
\* foreground; an exception of the runner (possible when there is a pre command)
\* leaves do_logic, the try statement is not entered yet
run_pre_cmds ==
    /\ pc = "pre"
    /\ \E outcome \in {"ok", "raise"} :
         pc' = IF outcome = "ok" THEN "env" ELSE "raised"
    /\ UNCHANGED <<driverVars, engineVars, procVars, envVars, teardown>>
    /\ UNCHANGED spawned_any
    /\ UNCHANGED auxVars

\* main.py:28-29
merge_env_vars ==
    /\ pc = "env"
    /\ \E env_vars \in EnvMaps : os_environ' = update(os_environ, env_vars)
    /\ pc' = "path"
    /\ UNCHANGED <<driverVars, engineVars, procVars, expectedEnv, teardown>>
    /\ UNCHANGED spawned_any
    /\ UNCHANGED auxVars

\* main.py:31,52  next configured path, or return None after the last one
next_path ==
    /\ pc = "path"
    /\ \E more \in BOOLEAN :
         IF more
         THEN /\ pc' = "file"
              /\ teardown' = [NoTeardown EXCEPT !.noAddSince = teardown.noAddSince]
         ELSE pc' = "done" /\ UNCHANGED teardown
    /\ UNCHANGED <<driverVars, engineVars, procVars, envVars>>
    /\ UNCHANGED spawned_any
    /\ UNCHANGED auxVars

\* main.py:33-37,46-47  open and parse the next file of the path; open() or the
\* parser (invalid tag) may raise, which the driver turns into its return value
next_file ==
    /\ pc = "file"
    /\ \E more \in BOOLEAN :
         IF more
         THEN \/ /\ pc' = "block"
                 /\ UNCHANGED <<driverVars, engineVars, procVars>>
              \/ /\ \E e \in {Txt, Txt \cup {InvalidTagTok}} :
                      EnterFinally(Err(e), "return")
                 /\ UNCHANGED background_processes
         ELSE /\ EnterFinally(ret, "next")
              /\ UNCHANGED background_processes
    /\ UNCHANGED <<envVars, teardown>>
    /\ UNCHANGED spawned_any
    /\ UNCHANGED auxVars

\* main.py:40-41, core.py:23-51, cmd.py:35-41  enter the next block of the file:
\* CodeBlockCore.run_commands up to the command loop of its executor.
\*   1. with an endpoint: poll it; no success -> "Error: endpoint not up ..."
\*   2. the file operation; applied -> ""
\*   3. without executor -> ""; with one, its skip gates -> "", else the loop starts
next_block ==
    /\ pc = "block"
    /\ \E more \in BOOLEAN :
         IF more
         THEN \E c \in Cores :
                LET polled    == c.endpoint # None
                    timed_out == polled /\ c.endpoint # "up"
                    wrote     == ~timed_out /\ handle_file_content(c)
                    returned  == timed_out \/ returns_after_file_op(wrote)
                IN /\ lastCore' = [gate |-> c.gate # None, polled |-> polled,
                                   up |-> c.endpoint = "up", wrote |-> wrote,
                                   executor |-> c.executor]
                   /\ IF returned \/ ~has_executor(c) \/ should_skip_codeblock_execution(c)
                      THEN /\ blockRes' = IF timed_out THEN Txt \cup {ErrTok} ELSE {}
                           /\ blk' = NoBlock
                           /\ pc' = "ret"
                      ELSE /\ \E b \in Blocks : blk' = Ran(b)
                           /\ blockRes' = {}
                           /\ pc' = "cmd"
         ELSE /\ pc' = "file"
              /\ UNCHANGED <<blk, lastCore, blockRes>>
    /\ UNCHANGED <<driverVars, cmd, attempt, tmp, had_error, response, last_output,
                   all_outputs, statuses, lastEnded, procVars, envVars, teardown>>
    /\ UNCHANGED spawned_any
    /\ UNCHANGED auxVars

\* main.py:42-43  first non-empty block result is returned
after_block ==
    /\ pc = "ret"
    /\ IF is_fatal(blockRes)
       THEN /\ EnterFinally(Err(blockRes), "return")
            /\ UNCHANGED background_processes
       ELSE /\ pc' = "block"
            /\ ResetEngine
            /\ UNCHANGED <<driverVars, background_processes, running>>
    /\ UNCHANGED <<envVars, teardown>>
    /\ UNCHANGED spawned_any
    /\ UNCHANGED auxVars

\* main.py:44-45  KeyboardInterrupt while the main thread waits for a foreground
\* child: logged, nothing is returned, the finally clause runs and the loop over
\* the paths goes on
keyboard_interrupt ==
    /\ pc = "wait"
    /\ EnterFinally(ret, "interrupted")
    /\ UNCHANGED <<background_processes, envVars, teardown>>
    /\ UNCHANGED spawned_any
    /\ UNCHANGED auxVars

\* main.py:49, main.py:318-333, processes_manager.py:20-43
\* finally: cleanup_background_processes().  Any of the stop attempts may fail
\* (the process is gone already); teardown.stopped counts the attempts made.
cleanup_background_processes ==
    /\ pc = "finally"
    /\ \E failing \in SUBSET background_processes :
         teardown' = [teardown EXCEPT
                        !.drained = TRUE,
                        !.stopped = Cardinality(stop_attempts(background_processes, failing)),
                        !.failed = failing # {},
                        !.again = teardown.noAddSince,
                        !.noAddSince = TRUE]
    /\ background_processes' = cleanup(background_processes)
    /\ pc' = "cleanup"
    /\ UNCHANGED <<driverVars, engineVars, running, lastSpawned, spawns, subst_runs, envVars>>
    /\ UNCHANGED spawned_any
    /\ UNCHANGED auxVars

\* main.py:50, config.py:58-67  finally: config.run_cleanup_cmds(); afterwards the
\* try statement returns, or the loop goes on with the next path
run_cleanup_cmds ==
    /\ pc = "cleanup"
    /\ teardown' = [teardown EXCEPT !.cleaned = TRUE, !.inOrder = teardown.drained]
    /\ \E outcome \in {"ok", "raise"} :
         pc' = IF outcome = "raise" THEN "raised"
               ELSE IF pending = "return" THEN "done" ELSE "path"
    /\ pending' = None
    /\ UNCHANGED <<ret, engineVars, procVars, envVars>>
    /\ UNCHANGED spawned_any
    /\ UNCHANGED auxVars

\* ---------------------------------------------------------------- engine
\* cmd.py:43-62,119-143  next command line of the block, if any: skip it, or merge
\* its env assignments into os.environ and start _execute_command
next_command ==
    /\ pc = "cmd"
    /\ lastSpawned' = NoSpawn
    /\ \E more \in BOOLEAN :
         IF more
         THEN \E c \in Commands :
                 IF should_skip_cmd_execution(c)
                 THEN /\ pc' = "cmd"
                      /\ UNCHANGED <<cmd, attempt, had_error, response, last_output,
                                     all_outputs, statuses, lastEnded, spawns, subst_runs,
                                     envVars>>
                 ELSE /\ should_run_in_background(blk.background, c)
                           => Cardinality(background_processes) < MaxProcs
                      /\ os_environ' = update(os_environ, parse_env(c))
                      /\ expectedEnv' = IF c.kind \in {"export", "inline", "standalone"}
                                        THEN [expectedEnv EXCEPT ![c.key] = c.val]
                                        ELSE expectedEnv
                      /\ IF blk.replace_text
                         THEN \* replace_text is malformed or names an unset variable
                              /\ HandleResult(FALSE, Txt \cup {ErrTok}, FALSE)
                              /\ statuses' = statuses \cup {"error"}
                              /\ lastEnded' = "other"
                         ELSE /\ cmd' = [kind |-> c.kind, invalid |-> validate_command(c),
                                         key |-> c.key, val |-> c.val,
                                         bg |-> should_run_in_background(blk.background, c),
                                         env |-> os_environ', subst |-> c.subst]
                              /\ attempt' = 0
                              /\ spawns' = 0
                              /\ subst_runs' = execute_substitution_commands(c)
                              /\ pc' = "spawn"
                              /\ lastEnded' = None
                              /\ UNCHANGED <<had_error, response, last_output,
                                             all_outputs, statuses>>
         ELSE /\ pc' = "post"
              /\ UNCHANGED <<cmd, attempt, had_error, response, last_output,
                             all_outputs, statuses, lastEnded, spawns, subst_runs,
                                     envVars>>
    /\ lastCore' = NoCore
    /\ UNCHANGED <<driverVars, blk, tmp, blockRes, background_processes, running, teardown>>
    /\ UNCHANGED spawned_any
    /\ UNCHANGED auxVars

\* cmd.py:149-162, execute.py:13-61,110-114  one attempt: validate, then spawn.
\* A foreground child gets os.environ overlaid with the executor's snapshot and
\* the main thread waits for it; a background child inherits os.environ, is
\* registered and reported as (True, None) at once.
spawn ==
    /\ pc = "spawn"
    /\ attempt < max_attempts(blk.retry_count)
    /\ IF cmd.invalid
       THEN IF cmd.bg
            THEN \* cmd.py:160-162  (1, error) of a background command is not looked at
                 /\ HandleResult(TRUE, {}, TRUE)
                 /\ lastEnded' = "other"
                 /\ UNCHANGED <<tmp, background_processes, running, lastSpawned>>
            ELSE /\ attempt' = attempt + 1
                 /\ tmp' = [status |-> "1", out |-> Txt, exited |-> FALSE, real |-> "error"]
                 /\ pc' = "got"
                 /\ UNCHANGED <<cmd, had_error, response, last_output, all_outputs,
                                background_processes, running, lastSpawned, spawns, subst_runs, lastEnded>>
       ELSE IF waits_for_exit(cmd.bg)
            THEN /\ attempt' = attempt + 1
                 /\ spawns' = spawns + 1
                 /\ subst_runs' = subst_runs + shell_substitutions(cmd)
                 /\ running' = TRUE
                 /\ lastSpawned' = <<update(os_environ, cmd.env)>>
                 /\ pc' = "wait"
                 /\ UNCHANGED <<cmd, tmp, had_error, response, last_output, all_outputs,
                                background_processes, lastEnded>>
            ELSE /\ running' = IF cmd.bg THEN running ELSE TRUE
                 /\ lastSpawned' = <<os_environ>>
                 /\ background_processes' = add_process(background_processes)
                 /\ HandleResult(TRUE, {}, TRUE)
                 /\ lastEnded' = "other"
                 /\ UNCHANGED tmp
    /\ teardown' = IF background_processes' # background_processes
                   THEN [teardown EXCEPT !.noAddSince = FALSE]
                   ELSE teardown
    /\ UNCHANGED <<driverVars, blk, lastCore, blockRes, statuses, envVars>>
    /\ spawned_any' = (spawned_any \/ ~cmd.invalid)
    /\ UNCHANGED auxVars

\* execute.py:61-107  pexpect.run returns: the child has exited (status None when a
\* signal killed it).  A source command reports (0, "") whatever happened and, when
\* the delimiter was printed, merges the child's env dump into os.environ.
\* Decoding the output may raise.
finish ==
    /\ pc = "wait"
    /\ running' = FALSE
    /\ \/ /\ cmd.kind = "source"
          /\ \E st \in {"0", "1"} :
               LET childEnv == update(update(os_environ, cmd.env),
                                      [k \in Keys |-> IF k = cmd.key THEN cmd.val ELSE Unset])
                   new_vars == IF st = "0" THEN childEnv ELSE NoEnv
                   diff     == dict_diff(os_environ, new_vars)
               IN /\ os_environ' = update(os_environ, diff)
                  /\ expectedEnv' = IF st = "0" THEN [expectedEnv EXCEPT ![cmd.key] = cmd.val]
                                    ELSE expectedEnv
                  /\ tmp' = [status |-> source_status(st), out |-> {}, exited |-> TRUE, real |-> st]
          /\ pc' = "got"
          /\ lastSpawned' = NoSpawn
          /\ UNCHANGED <<driverVars, blk, lastCore, cmd, attempt, had_error, response,
                         last_output, all_outputs, blockRes, statuses, lastEnded,
                         spawns, subst_runs>>
       \/ /\ cmd.kind # "source"
          /\ \E st \in {"0", "1", None}, out \in Outputs :
               tmp' = [status |-> st, out |-> out, exited |-> TRUE, real |-> st]
          /\ pc' = "got"
          /\ lastSpawned' = NoSpawn
          /\ UNCHANGED <<driverVars, blk, lastCore, cmd, attempt, had_error, response,
                         last_output, all_outputs, blockRes, statuses, lastEnded,
                         spawns, subst_runs, envVars>>
       \/ /\ EnterFinally(Err(Txt), "return")
          /\ UNCHANGED envVars
    /\ UNCHANGED <<background_processes, teardown>>
    /\ UNCHANGED spawned_any
    /\ UNCHANGED auxVars

\* cmd.py:164-199  status check of one attempt: retry after a sleep, or return
\* (success, output) to run_commands
retry_or_return ==
    /\ pc = "got"
    /\ LET status  == tmp.status
           error   == IF status # None THEN status # "0" ELSE FALSE
           success == IF blk.expect_failure THEN error ELSE ~error
       IN IF status # None /\ status # "0" /\ attempt < max_attempts(blk.retry_count)
          THEN /\ pc' = "spawn"
               /\ UNCHANGED <<cmd, attempt, spawns, subst_runs, had_error, response, last_output,
                              all_outputs, statuses, lastEnded>>
          ELSE /\ statuses' = statuses \cup ({tmp.real} \ {"0"})
                                \cup (IF tmp.exited /\ status \notin {None, "0"}
                                         /\ ~blk.expect_failure
                                      THEN {"failed"} ELSE {})
               /\ lastEnded' = IF tmp.exited /\ status = "0" /\ tmp.real = "0"
                                  /\ attempt < max_attempts(blk.retry_count)
                               THEN "early0" ELSE "other"
               /\ IF status # None /\ status # "0"
                  THEN HandleResult(FALSE, Txt \cup tmp.out, FALSE)
                  ELSE HandleResult(success, tmp.out, FALSE)
    /\ tmp' = NoTmp
    /\ UNCHANGED <<driverVars, blk, lastCore, blockRes, background_processes, running,
                   lastSpawned, envVars, teardown>>
    /\ UNCHANGED spawned_any
    /\ UNCHANGED auxVars

\* cmd.py:78-79, delay.py:11-22  after the loop over the commands:
\* self.delay_manager.handle_delay("post"), which sleeps when post_delay > 0
handle_post_delay ==
    /\ pc = "post"
    /\ \E d \in 0..MaxDelay : pc' = IF handle_delay(d) THEN "slept" ELSE "unslept"
    /\ UNCHANGED <<driverVars, engineVars, procVars, envVars, teardown>>
    /\ UNCHANGED spawned_any
    /\ UNCHANGED auxVars

\* cmd.py:81-97, core.py:36-49  assertions, return value of the block
end_block ==
    /\ pc \in {"slept", "unslept"}
    /\ blockRes' =
         IF blk.expect_failure
         THEN (IF had_error THEN {} ELSE Txt \cup {ErrTok})
         ELSE IF blk.output_contains /\ all_outputs.any /\ Needle \notin join(all_outputs)
              THEN Txt \cup {ErrTok, Needle}
              ELSE IF Truthy(response) THEN response ELSE last_output
    /\ lastSpawned' = NoSpawn
    /\ lastEnded' = None
    /\ pc' = "ret"
    /\ UNCHANGED <<driverVars, blk, lastCore, cmd, attempt, tmp, had_error, response,
                   last_output, all_outputs, statuses, background_processes, running,
                   spawns, subst_runs, envVars, teardown>>
    /\ UNCHANGED spawned_any
    /\ UNCHANGED auxVars

Next ==
    \/ run_pre_cmds
    \/ merge_env_vars
    \/ next_path
    \/ next_file
    \/ next_block
    \/ after_block
    \/ keyboard_interrupt
    \/ cleanup_background_processes
    \/ run_cleanup_cmds
    \/ next_command
    \/ spawn
    \/ finish
    \/ retry_or_return
    \/ handle_post_delay
    \/ end_block

Spec == Init /\ [][Next]_vars

\* ---------------------------------------------------------------- Endpoint.poll
\* models.py:32-46.  The clock advances only in time.sleep(poll_speed): a request
\* takes no time.  Whether a GET succeeds is up to the endpoint.

\* models.py:41  `time.time() - start_time > self.max_timeout`
timed_out_late(since_start, limit) == since_start > limit + 1
timed_out(since_start, limit) == since_start > limit

\* the driver is at the entry of do_logic and stays there
DriverAtRest == DriverInit /\ os_environ = NoEnv

\* models.py:33-35  entry of poll with some max_timeout >= 0 and poll_speed > 0
PollInit ==
    /\ DriverAtRest
    /\ StreamAtRest
    /\ RetryAtRest
    /\ ParseAtRest
    /\ ExtractAtRest
    /\ FileAtRest
    /\ max_timeout \in 0..MaxTimeout
    /\ poll_speed \in 1..MaxSpeed
    /\ elapsed = 0 /\ poll_attempt = 1
    /\ yielded = <<>> /\ ppc = "get"

\* models.py:37-40  requests.get(url): on success yield True and break,
\* a RequestException leads to the except clause
poll_get ==
    /\ ppc = "get"
    /\ \E up \in BOOLEAN :
         IF up
         THEN yielded' = Append(yielded, TRUE) /\ ppc' = "done"
         ELSE ppc' = "except" /\ UNCHANGED yielded
    /\ UNCHANGED <<max_timeout, poll_speed, elapsed, poll_attempt>>
    /\ UNCHANGED <<mainVars, parseVars, extractVars, fileVars, retryVars, streamVars>>

\* models.py:41-43  after a failed GET: break when the time is up, else yield False
poll_except ==
    /\ ppc = "except"
    /\ IF timed_out(elapsed, max_timeout)
       THEN ppc' = "done" /\ UNCHANGED yielded
       ELSE yielded' = Append(yielded, FALSE) /\ ppc' = "sleep"
    /\ UNCHANGED <<max_timeout, poll_speed, elapsed, poll_attempt>>
    /\ UNCHANGED <<mainVars, parseVars, extractVars, fileVars, retryVars, streamVars>>

\* models.py:44-45  time.sleep(poll_speed); attempt += 1
poll_sleep ==
    /\ ppc = "sleep"
    /\ elapsed' = elapsed + poll_speed
    /\ poll_attempt' = poll_attempt + 1
    /\ ppc' = "get"
    /\ UNCHANGED <<max_timeout, poll_speed, yielded>>
    /\ UNCHANGED <<mainVars, parseVars, extractVars, fileVars, retryVars, streamVars>>

PollNext ==
    \/ poll_get
    \/ poll_except
    \/ poll_sleep

PollSpec == PollInit /\ [][PollNext]_vars

\* core.py:27-28 drains the generator in a for loop on the only thread, and
\* time.sleep returns: a poll that can take a step takes it
PollFairSpec == PollSpec /\ WF_vars(PollNext)

\* ---------------------------------------------------------------- process_language_parts
\* parsing.py:13-60, called for each fence by parse_markdown_code_blocks
\* (parsing.py:104-110) with the whitespace-separated tokens of the info line.

ParseInit ==
    /\ DriverAtRest
    /\ StreamAtRest
    /\ RetryAtRest
    /\ PollAtRest
    /\ ExtractAtRest
    /\ FileAtRest
    /\ language_parts \in SeqsUpTo(Tokens, MaxParts)
    /\ raw_tags = <<>> /\ tag_i = 1
    /\ invalid_tag = NoTag /\ processed_tags = <<>> /\ qpc = "enter"
    /\ value = NoValue
    /\ delay_texts = [post |-> NoText, cmd |-> NoText]
    /\ delay_manager = [post_delay |-> 0, cmd_delay |-> 0]

\* parsing.py:15-19  an info line of at most one token has no tags; the first
\* token is the language and is not looked at
parse_enter ==
    /\ qpc = "enter"
    /\ IF Len(language_parts) <= 1
       THEN /\ qpc' = "returned"
            /\ UNCHANGED raw_tags
       ELSE /\ raw_tags' = Tail(language_parts)
            /\ qpc' = "check"
    /\ UNCHANGED <<language_parts, tag_i, invalid_tag, processed_tags, value,
                   delay_texts, delay_manager>>
    /\ UNCHANGED <<mainVars, pollVars, extractVars, fileVars, retryVars, streamVars>>

\* parsing.py:20-25  one iteration of the validation loop
check_tag ==
    /\ qpc = "check"
    /\ IF tag_i > Len(raw_tags)
       THEN /\ qpc' = "merge"
            /\ UNCHANGED <<tag_i, invalid_tag>>
       ELSE LET tag == raw_tags[tag_i]
            IN IF contains_prefix(tag) /\ ~is_valid(strip_value(tag))
               THEN /\ invalid_tag' = strip_value(tag)
                    /\ qpc' = "raised"
                    /\ UNCHANGED tag_i
               ELSE /\ tag_i' = tag_i + 1
                    /\ UNCHANGED <<qpc, invalid_tag>>
    /\ UNCHANGED <<language_parts, raw_tags, processed_tags, value,
                   delay_texts, delay_manager>>
    /\ UNCHANGED <<mainVars, pollVars, extractVars, fileVars, retryVars, streamVars>>

\* parsing.py:27-60  quoted values that were split at blanks are glued together
\* again; no token here carries a quote, so every raw tag is appended as it is
merge_quoted ==
    /\ qpc = "merge"
    /\ processed_tags' = raw_tags
    /\ qpc' = "returned"
    /\ UNCHANGED <<language_parts, raw_tags, tag_i, invalid_tag, value,
                   delay_texts, delay_manager>>
    /\ UNCHANGED <<mainVars, pollVars, extractVars, fileVars, retryVars, streamVars>>

\* parsing.py:108-173  the rest of the loop body of parse_markdown_code_blocks:
\* the typed fields are read from the tags
\* parsing.py:133-136  the values of the delay tags go through int(), which
\* raises ValueError out of the parser
parse_markdown_code_blocks ==
    /\ qpc = "returned"
    /\ LET fields == typed_fields(language_parts, processed_tags)
       IN \E post_text \in IF fields.post_delay = "v" THEN NumberTexts ELSE {NoText},
             cmd_text \in IF fields.cmd_delay = "v" THEN NumberTexts ELSE {NoText} :
            /\ delay_texts' = [post |-> post_text, cmd |-> cmd_text]
            /\ IF \E t \in {post_text, cmd_text} : t # NoText /\ ~int_accepts(t)
               THEN /\ qpc' = "value_error"
                    /\ UNCHANGED <<value, delay_manager>>
               ELSE /\ value' = fields
                    /\ delay_manager' =
                          [post_delay |-> IF post_text = NoText THEN 0
                                          ELSE 10 * int(post_text),
                           cmd_delay  |-> IF cmd_text = NoText THEN 0
                                          ELSE 10 * int(cmd_text)]
                    /\ qpc' = "built"
    /\ UNCHANGED <<language_parts, raw_tags, tag_i, invalid_tag, processed_tags>>
    /\ UNCHANGED <<mainVars, pollVars, extractVars, fileVars, retryVars, streamVars>>

ParseNext ==
    \/ parse_enter
    \/ check_tag
    \/ merge_quoted
    \/ parse_markdown_code_blocks

ParseSpec == ParseInit /\ [][ParseNext]_vars

\* ---------------------------------------------------------------- Tags.extract_tag_value
\* models.py:136-202, called with tag_type = docci-output-contains and no
\* converter.  A tag is kept as the text before its '=' (without the prefix) and
\* the characters after it.

DQ == "\""
SQ == "'"
BS == "\\"
Chars == {DQ, SQ, BS, "x"}

\* models.py:168-177  a backslash escapes the quote character and a backslash
escapes_quote_only(next, quote) == next = quote
escapes(next, quote) == next = quote \/ next = BS

ExtractInit ==
    /\ DriverAtRest
    /\ StreamAtRest
    /\ RetryAtRest
    /\ PollAtRest
    /\ ParseAtRest
    /\ FileAtRest
    /\ \E first \in [name : {"output-contains", "contains", "file"},
                     text : SeqsUpTo(Chars, MaxValueLen)] :
         \/ ex_tags = <<first>>
         \/ \E further \in [name : {"output-contains", "contains", "file"},
                            text : SeqsUpTo(Chars, MaxTailLen)] :
               ex_tags = <<first, further>>
    /\ ex_t = 1 /\ ex_value = <<>> /\ ex_i = 1
    /\ quote_char = None /\ processed_value = <<>> /\ matching_tags = <<>>
    /\ extracted = <<>> /\ xpc = "tags"

\* models.py:157-165, 196-198  next tag of the list: a tag that starts with
\* `docci-output-contains=` or with an alias and '=' has its value taken, as it is
\* or, after an opening quote, by the scan
extract_next_tag ==
    /\ xpc = "tags" /\ ex_t <= Len(ex_tags)
    /\ LET tag == ex_tags[ex_t]
       IN IF tag.name \in possible_tags("output-contains")
          THEN IF tag.text # <<>> /\ tag.text[1] \in {DQ, SQ}
               THEN /\ quote_char' = tag.text[1]
                    /\ ex_value' = Tail(tag.text)
                    /\ processed_value' = <<>>
                    /\ ex_i' = 1
                    /\ xpc' = "scan"
                    /\ UNCHANGED <<ex_t, matching_tags>>
               ELSE /\ matching_tags' = Append(matching_tags, tag.text)
                    /\ ex_value' = tag.text
                    /\ ex_t' = ex_t + 1
                    /\ UNCHANGED <<quote_char, processed_value, ex_i, xpc>>
          ELSE /\ ex_t' = ex_t + 1
               /\ UNCHANGED <<ex_value, quote_char, processed_value, ex_i, matching_tags, xpc>>
    /\ UNCHANGED <<ex_tags, extracted>>
    /\ UNCHANGED <<mainVars, pollVars, parseVars, fileVars, retryVars, streamVars>>

\* models.py:174-194  one iteration of the loop over the characters, or its end
extract_scan ==
    /\ xpc = "scan"
    /\ IF ex_i <= Len(ex_value) /\ ~(ex_value[ex_i] = quote_char)
       THEN /\ IF /\ ex_value[ex_i] = BS /\ ex_i + 1 <= Len(ex_value)
                  /\ escapes(ex_value[ex_i + 1], quote_char)
               THEN /\ processed_value' = Append(processed_value, ex_value[ex_i + 1])
                    /\ ex_i' = ex_i + 2
               ELSE /\ processed_value' = Append(processed_value, ex_value[ex_i])
                    /\ ex_i' = ex_i + 1
            /\ UNCHANGED <<ex_value, ex_t, matching_tags, xpc>>
       ELSE /\ ex_value' = processed_value
            /\ matching_tags' = Append(matching_tags, processed_value)
            /\ ex_t' = ex_t + 1
            /\ xpc' = "tags"
            /\ UNCHANGED <<processed_value, ex_i>>
    /\ UNCHANGED <<ex_tags, quote_char, extracted>>
    /\ UNCHANGED <<mainVars, pollVars, parseVars, fileVars, retryVars, streamVars>>

\* models.py:196-202  the default (None) or the first matching value
extract_return ==
    /\ xpc = "tags" /\ ex_t > Len(ex_tags)
    /\ extracted' = IF matching_tags = <<>> THEN <<None>> ELSE <<matching_tags[1]>>
    /\ xpc' = "done"
    /\ UNCHANGED <<ex_tags, ex_t, ex_value, ex_i, quote_char, processed_value, matching_tags>>
    /\ UNCHANGED <<mainVars, pollVars, parseVars, fileVars, retryVars, streamVars>>

ExtractNext ==
    \/ extract_next_tag
    \/ extract_scan
    \/ extract_return

ExtractSpec == ExtractInit /\ [][ExtractNext]_vars

\* ---------------------------------------------------------------- FileOperations
\* file_operations.py:19-81.  handle_file_content is called twice in a row with
\* the same FileOperations; nothing else touches the file in between.

FileInit ==
    /\ DriverAtRest
    /\ StreamAtRest
    /\ RetryAtRest
    /\ PollAtRest
    /\ ParseAtRest
    /\ ExtractAtRest
    /\ fo \in FileOperationsSet
    /\ marker_exists \in BOOLEAN
    /\ file_exists \in BOOLEAN
    /\ file \in {OriginalFile(n) : n \in 0..MaxLines}
    /\ file_exists = FALSE => file = <<>>
    /\ lines = <<>> /\ fo_returns = <<>>
    /\ file_before = <<file_exists, file>> /\ file_after_first = <<>>
    /\ fpc = "enter"

\* end of a call: its return value is noted, a second call may follow
FileReturn(result, f) ==
    /\ fo_returns' = Append(fo_returns, result)
    /\ file_after_first' = IF fo_returns = <<>> THEN f ELSE file_after_first
    /\ fpc' = IF fo_returns = <<>> THEN "enter" ELSE "done"

\* file_operations.py:19-36  no file_name or the skip rule: return False;
\* else write the content to a missing file, or to any file with file_reset
fo_enter ==
    /\ fpc = "enter"
    /\ file_before' = <<file_exists, file>>
    /\ IF ~fo.file_name \/ should_skip_execution(fo, file_exists)
       THEN /\ FileReturn(FALSE, file)
            /\ UNCHANGED <<file_exists, file, lines>>
       ELSE /\ IF refreshes(fo, file_exists)
               THEN file' = fo.content /\ file_exists' = TRUE
               ELSE UNCHANGED <<file_exists, file>>
            /\ fpc' = "read"
            /\ UNCHANGED <<lines, fo_returns, file_after_first>>
    /\ UNCHANGED <<fo, marker_exists>>
    /\ UNCHANGED <<mainVars, pollVars, parseVars, extractVars, retryVars, streamVars>>

\* file_operations.py:38-39
fo_read ==
    /\ fpc = "read"
    /\ lines' = readlines(file)
    /\ fpc' = "insert"
    /\ UNCHANGED <<fo, marker_exists, file_exists, file, fo_returns, file_before,
                   file_after_first>>
    /\ UNCHANGED <<mainVars, pollVars, parseVars, extractVars, retryVars, streamVars>>

\* file_operations.py:41-46  `if self.insert_at_line:` is false for None and for 0
fo_insert ==
    /\ fpc = "insert"
    /\ lines' = IF fo.insert_at_line # <<>> /\ fo.insert_at_line[1] # 0
                THEN list_insert(lines, insert_index(fo.insert_at_line[1], Len(lines)),
                                 fo.content)
                ELSE lines
    /\ fpc' = "replace"
    /\ UNCHANGED <<fo, marker_exists, file_exists, file, fo_returns, file_before,
                   file_after_first>>
    /\ UNCHANGED <<mainVars, pollVars, parseVars, extractVars, retryVars, streamVars>>

\* file_operations.py:48, 64-81
fo_replace ==
    /\ fpc = "replace"
    /\ lines' = replace_lines_in(lines, fo.replace_lines, fo.content)
    /\ fpc' = "write"
    /\ UNCHANGED <<fo, marker_exists, file_exists, file, fo_returns, file_before,
                   file_after_first>>
    /\ UNCHANGED <<mainVars, pollVars, parseVars, extractVars, retryVars, streamVars>>

\* file_operations.py:50-53  write the lines back and return True
fo_write ==
    /\ fpc = "write"
    /\ file' = joined(lines)
    /\ FileReturn(TRUE, joined(lines))
    /\ UNCHANGED <<fo, marker_exists, file_exists, lines, file_before>>
    /\ UNCHANGED <<mainVars, pollVars, parseVars, extractVars, retryVars, streamVars>>

FileNext ==
    \/ fo_enter
    \/ fo_read
    \/ fo_insert
    \/ fo_replace
    \/ fo_write

FileSpec == FileInit /\ [][FileNext]_vars

\* ---------------------------------------------------------------- retry loop
\* cmd.py:145-147  entry of the loop of _execute_command for a foreground command
RetryInit ==
    /\ DriverAtRest
    /\ StreamAtRest
    /\ PollAtRest
    /\ ParseAtRest
    /\ ExtractAtRest
    /\ FileAtRest
    /\ retry_count \in 0..(MaxRetry + 1)
    /\ cmd_delay \in {<<>>} \cup {<<d>> : d \in 0..MaxDelay}
    /\ retry_attempt = 0
    /\ retry_status = None
    /\ self_expect_failure \in BOOLEAN
    /\ retry_returns = <<>>
    /\ last_sleep = <<>> /\ all_sleeps = <<>>
    /\ rpc = "loop"

\* cmd.py:149-165  one pass of `while attempt < max_attempts`: attempt += 1 and
\* execute_command runs the child, which exits with some status or is killed
execute_attempt ==
    /\ rpc = "loop"
    /\ retry_attempt < max_attempts(retry_count)
    /\ retry_attempt' = retry_attempt + 1
    /\ \E st \in {"0", "1", None} : retry_status' = st
    /\ last_sleep' = <<>>
    /\ rpc' = "status"
    /\ UNCHANGED <<retry_count, cmd_delay, all_sleeps, self_expect_failure, retry_returns>>
    /\ UNCHANGED <<mainVars, pollVars, parseVars, extractVars, fileVars, streamVars>>

\* cmd.py:164-199  status check: return (success, output), or sleep and try again
status_check ==
    /\ rpc = "status"
    /\ LET error   == IF retry_status # None THEN retry_status # "0" ELSE FALSE
           success == IF self_expect_failure THEN error ELSE ~error
       IN IF retry_status \notin {None, "0"}
          THEN IF retry_attempt >= max_attempts(retry_count)
               THEN /\ retry_returns' = <<FALSE>>
                    /\ rpc' = "returned"
                    /\ UNCHANGED <<last_sleep, all_sleeps>>
               ELSE /\ last_sleep' = handle_retry_cmd_delay(retry_attempt, cmd_delay)
                    /\ all_sleeps' = all_sleeps \o last_sleep'
                    /\ rpc' = "loop"
                    /\ UNCHANGED retry_returns
          ELSE /\ retry_returns' = <<success>>
               /\ rpc' = "returned"
               /\ UNCHANGED <<last_sleep, all_sleeps>>
    /\ UNCHANGED <<retry_count, cmd_delay, retry_attempt, retry_status, self_expect_failure>>
    /\ UNCHANGED <<mainVars, pollVars, parseVars, extractVars, fileVars, streamVars>>

RetryNext ==
    \/ execute_attempt
    \/ status_check

RetrySpec == RetryInit /\ [][RetryNext]_vars

\* ---------------------------------------------------------------- streaming
\* streaming.py:66  `while self.is_running or not self.output_queue.empty()`
keeps_consuming_always(alive, empty) == TRUE
keeps_consuming(alive, empty) == alive \/ ~empty

\* streaming.py:22-27  start() has set is_running, spawned the child and started
\* the read thread; the main thread is about to call attach_consumer
StreamInit ==
    /\ DriverAtRest
    /\ PollAtRest
    /\ ParseAtRest
    /\ ExtractAtRest
    /\ FileAtRest
    /\ RetryAtRest
    /\ is_running = TRUE /\ output_queue = <<>> /\ printed = <<>> /\ child_lines = 0
    /\ child_exited = FALSE /\ closes = 0 /\ line = <<>> /\ lines_read = <<>>
    /\ consumed = <<>> /\ stops_returned = FALSE
    /\ read_pc = "while" /\ consume_pc = "off" /\ main_pc = "attach"

\* the child prints a line
child_print ==
    /\ ~child_exited /\ child_lines < MaxOut
    /\ child_lines' = child_lines + 1
    /\ printed' = Append(printed, child_lines + 1)
    /\ UNCHANGED <<is_running, output_queue, child_exited, closes, line, lines_read,
                   consumed, stops_returned, read_pc, consume_pc, main_pc>>
    /\ UNCHANGED <<mainVars, pollVars, parseVars, extractVars, fileVars, retryVars>>

\* the child exits on its own
child_exit ==
    /\ ~child_exited
    /\ child_exited' = TRUE
    /\ UNCHANGED <<is_running, output_queue, printed, child_lines, closes, line, lines_read,
                   consumed, stops_returned, read_pc, consume_pc, main_pc>>
    /\ UNCHANGED <<mainVars, pollVars, parseVars, extractVars, fileVars, retryVars>>

\* streaming.py:31  `while self.is_running:`
read_while ==
    /\ read_pc = "while"
    /\ read_pc' = IF is_running THEN "readline" ELSE "finally"
    /\ UNCHANGED <<is_running, output_queue, printed, child_lines, child_exited, closes,
                   line, lines_read, consumed, stops_returned, consume_pc, main_pc>>
    /\ UNCHANGED <<mainVars, pollVars, parseVars, extractVars, fileVars, retryVars>>

\* streaming.py:32-48  self.process.readline() blocks until the child has printed a
\* line or its output has ended; EOF, EBADF, any other exception and an empty
\* line leave the loop.  After close() a line that was buffered may still come.
read_readline ==
    /\ read_pc = "readline"
    /\ \/ /\ printed # <<>>
          /\ line' = <<Head(printed)>>
          /\ printed' = Tail(printed)
          /\ lines_read' = Append(lines_read, Head(printed))
          /\ read_pc' = "put"
       \/ /\ (child_exited /\ printed = <<>>) \/ closes > 0
          /\ read_pc' = "finally"
          /\ UNCHANGED <<line, printed, lines_read>>
    /\ UNCHANGED <<is_running, output_queue, child_lines, child_exited, closes, consumed,
                   stops_returned, consume_pc, main_pc>>
    /\ UNCHANGED <<mainVars, pollVars, parseVars, extractVars, fileVars, retryVars>>

\* streaming.py:49  self.output_queue.put(line)
read_put ==
    /\ read_pc = "put"
    /\ output_queue' = Append(output_queue, line[1])
    /\ line' = <<>>
    /\ read_pc' = "while"
    /\ UNCHANGED <<is_running, printed, child_lines, child_exited, closes, lines_read,
                   consumed, stops_returned, consume_pc, main_pc>>
    /\ UNCHANGED <<mainVars, pollVars, parseVars, extractVars, fileVars, retryVars>>

\* streaming.py:50-51,83  the finally clause calls stop(): `if self.is_running:`
read_stop ==
    /\ read_pc = "finally"
    /\ IF is_running
       THEN read_pc' = "set" /\ UNCHANGED stops_returned
       ELSE read_pc' = "done" /\ stops_returned' = TRUE
    /\ UNCHANGED <<is_running, output_queue, printed, child_lines, child_exited, closes,
                   line, lines_read, consumed, consume_pc, main_pc>>
    /\ UNCHANGED <<mainVars, pollVars, parseVars, extractVars, fileVars, retryVars>>

\* streaming.py:84  self.is_running = False
read_stop_set ==
    /\ read_pc = "set"
    /\ is_running' = FALSE
    /\ read_pc' = "close"
    /\ UNCHANGED <<output_queue, printed, child_lines, child_exited, closes, line,
                   lines_read, consumed, stops_returned, consume_pc, main_pc>>
    /\ UNCHANGED <<mainVars, pollVars, parseVars, extractVars, fileVars, retryVars>>

\* streaming.py:85-89  self.process.close(force=True), errors swallowed
read_stop_close ==
    /\ read_pc = "close"
    /\ closes' = closes + 1
    /\ child_exited' = TRUE
    /\ stops_returned' = TRUE
    /\ read_pc' = "done"
    /\ UNCHANGED <<is_running, output_queue, printed, child_lines, line, lines_read,
                   consumed, consume_pc, main_pc>>
    /\ UNCHANGED <<mainVars, pollVars, parseVars, extractVars, fileVars, retryVars>>

\* streaming.py:53-57, execute.py:110  the main thread starts the consume thread
attach_consumer ==
    /\ main_pc = "attach"
    /\ consume_pc' = "while"
    /\ main_pc' = "registered"
    /\ UNCHANGED <<is_running, output_queue, printed, child_lines, child_exited, closes,
                   line, lines_read, consumed, stops_returned, read_pc>>
    /\ UNCHANGED <<mainVars, pollVars, parseVars, extractVars, fileVars, retryVars>>

\* processes_manager.py:30-32, streaming.py:83  the cleanup of the registry calls
\* stop(): `if self.is_running:`
cleanup_stop ==
    /\ main_pc = "registered"
    /\ IF is_running
       THEN main_pc' = "set" /\ UNCHANGED stops_returned
       ELSE main_pc' = "returned" /\ stops_returned' = TRUE
    /\ UNCHANGED <<is_running, output_queue, printed, child_lines, child_exited, closes,
                   line, lines_read, consumed, read_pc, consume_pc>>
    /\ UNCHANGED <<mainVars, pollVars, parseVars, extractVars, fileVars, retryVars>>

\* streaming.py:84  self.is_running = False
cleanup_stop_set ==
    /\ main_pc = "set"
    /\ is_running' = FALSE
    /\ main_pc' = "close"
    /\ UNCHANGED <<output_queue, printed, child_lines, child_exited, closes, line,
                   lines_read, consumed, stops_returned, read_pc, consume_pc>>
    /\ UNCHANGED <<mainVars, pollVars, parseVars, extractVars, fileVars, retryVars>>

\* streaming.py:85-89  self.process.close(force=True), errors swallowed
cleanup_stop_close ==
    /\ main_pc = "close"
    /\ closes' = closes + 1
    /\ child_exited' = TRUE
    /\ stops_returned' = TRUE
    /\ main_pc' = "returned"
    /\ UNCHANGED <<is_running, output_queue, printed, child_lines, line, lines_read,
                   consumed, read_pc, consume_pc>>
    /\ UNCHANGED <<mainVars, pollVars, parseVars, extractVars, fileVars, retryVars>>

\* streaming.py:66  the loop condition of _consume_output: is_running is read first
consume_while ==
    /\ consume_pc = "while"
    /\ consume_pc' = IF is_running THEN "get" ELSE "empty"
    /\ UNCHANGED <<is_running, output_queue, printed, child_lines, child_exited, closes,
                   line, lines_read, consumed, stops_returned, read_pc, main_pc>>
    /\ UNCHANGED <<mainVars, pollVars, parseVars, extractVars, fileVars, retryVars>>

\* streaming.py:66  then self.output_queue.empty()
consume_empty ==
    /\ consume_pc = "empty"
    /\ consume_pc' = IF keeps_consuming(FALSE, output_queue = <<>>) THEN "get" ELSE "done"
    /\ UNCHANGED <<is_running, output_queue, printed, child_lines, child_exited, closes,
                   line, lines_read, consumed, stops_returned, read_pc, main_pc>>
    /\ UNCHANGED <<mainVars, pollVars, parseVars, extractVars, fileVars, retryVars>>

\* streaming.py:67-75  get(timeout=1): the next line goes to consumer_function;
\* queue.Empty after the timeout is passed over
consume_get ==
    /\ consume_pc = "get"
    /\ IF output_queue # <<>>
       THEN /\ consumed' = Append(consumed, Head(output_queue))
            /\ output_queue' = Tail(output_queue)
       ELSE UNCHANGED <<consumed, output_queue>>
    /\ consume_pc' = "while"
    /\ UNCHANGED <<is_running, printed, child_lines, child_exited, closes, line,
                   lines_read, stops_returned, read_pc, main_pc>>
    /\ UNCHANGED <<mainVars, pollVars, parseVars, extractVars, fileVars, retryVars>>

ReadThread == read_while \/ read_readline \/ read_put \/ read_stop \/ read_stop_set \/ read_stop_close
ConsumeThread == consume_while \/ consume_empty \/ consume_get
MainThread == attach_consumer \/ cleanup_stop \/ cleanup_stop_set \/ cleanup_stop_close

StreamNext ==
    \/ child_print
    \/ child_exit
    \/ read_while
    \/ read_readline
    \/ read_put
    \/ read_stop
    \/ read_stop_set
    \/ read_stop_close
    \/ attach_consumer
    \/ cleanup_stop
    \/ cleanup_stop_set
    \/ cleanup_stop_close
    \/ consume_while
    \/ consume_empty
    \/ consume_get

StreamSpec == StreamInit /\ [][StreamNext]_vars

\* The threads are scheduled by the interpreter and a thread that can take a step
\* takes it; the sleeps of the consume thread are bounded (timeout=1).  Nothing
\* makes the child print or exit, and nothing makes the driver reach its cleanup.
StreamFairSpec ==
    /\ StreamSpec
    /\ WF_vars(ReadThread)
    /\ WF_vars(ConsumeThread)
    /\ WF_vars(attach_consumer \/ cleanup_stop_set \/ cleanup_stop_close)

\* ---------------------------------------------------------------- properties
DriverReturned == pc = "done"
DriverLeft     == pc \in {"done", "raised"}
BlockReturned  == pc = "ret" /\ blk.ran
SpawnStep      == pc = "spawn" /\ lastSpawned' # NoSpawn
\* positions of the main thread outside the command loop of a block
OutsideBlock   == {"pre", "env", "path", "file", "block", "ret", "finally", "cleanup",
                   "done", "raised"}

\* C1: once do_logic has returned (normally, with a block error, after an exception
\* it caught, or after an interrupt) the process registry is empty.
C1_RegistryDrained == DriverReturned => background_processes = {}
\* a run that registered background processes has returned
C1_Witness == DriverReturned /\ teardown.stopped > 0 /\ background_processes = {}

\* C2: every spawned command receives an environment in which each key has the
\* value that the last export / K=V / successful source before it assigned.
C2_EnvPersistence ==
    [][SpawnStep => \A k \in Keys :
                      expectedEnv'[k] # Unset => lastSpawned'[1][k] = expectedEnv'[k]]_vars
\* a plain command, the first one of a foreground block to be executed, runs with a
\* value that a command of an earlier block assigned
C2_Witness ==
    /\ pc = "wait" /\ cmd.kind = "plain" /\ blk.ran /\ ~blk.background
    /\ ~all_outputs.any /\ ~had_error
    /\ expectedEnv["FOO"] = "b" /\ lastSpawned # NoSpawn /\ lastSpawned[1]["FOO"] = "b"

\* C3: commands are spawned one at a time and in order: a child is spawned only
\* when no foreground child is running, as the next attempt of the command in
\* progress; a command is started only when the previous command has finished, a
\* block only when the previous block has returned, and the driver is outside the
\* command loop only when no child is being waited for.
C3_SerialOrder ==
    /\ [](pc \in OutsideBlock => ~running /\ cmd = NoCmd)
    /\ [][/\ SpawnStep => ~running /\ cmd # NoCmd /\ attempt < max_attempts(blk.retry_count)
          /\ (cmd' # cmd /\ cmd' # NoCmd) => pc = "cmd" /\ cmd = NoCmd /\ ~running
          /\ (blk' # blk /\ blk'.ran) => pc = "block" /\ ~blk.ran /\ ~running
          /\ attempt' # attempt => attempt' = attempt + 1 \/ attempt' = 0]_vars
\* a command is running after an earlier command of its block has finished
C3_Witness == pc = "wait" /\ running /\ all_outputs.any /\ lastSpawned # NoSpawn

\* C4: a block whose commands all exit 0 and whose assertions hold returns "".
C4_SuccessReturnsEmpty ==
    (/\ BlockReturned /\ ~blk.expect_failure /\ statuses = {}
     /\ (blk.output_contains => Needle \in join(all_outputs)))
    => blockRes = {}

\* C5: with expect_failure, the block returns "" if and only if one of its commands
\* failed (did not end by exit 0).
C5_ExpectFailureIff ==
    (BlockReturned /\ blk.expect_failure) => ((blockRes = {}) <=> (statuses # {}))

\* C6: with output_contains (and no expect_failure), a block whose outputs do not
\* contain the expected text returns an error, also when nothing was captured.
C6_OutputContainsChecked ==
    (/\ BlockReturned /\ blk.output_contains /\ ~blk.expect_failure
     /\ Needle \notin join(all_outputs))
    => Truthy(blockRes)

\* C7: without expect_failure, a block one of whose commands exited non-zero on all
\* its attempts returns a non-empty diagnostic.
C7_FailureReturnsError ==
    (BlockReturned /\ ~blk.expect_failure /\ "1" \in statuses) => Truthy(blockRes)

C9_FirstErrorStops ==
    /\ [](ret.kind = "Error" => pc \in {"finally", "cleanup", "done", "raised"})
    /\ [][/\ (pc = "ret" /\ Truthy(blockRes))
               => ret' = [kind |-> "Error", err |-> blockRes] /\ pc' = "finally"
          /\ ret.kind = "Error"
               => /\ ret' = ret
                  /\ pc' \in {"cleanup", "done", "raised"}
                  /\ blk' = NoBlock /\ lastSpawned' = NoSpawn
                  /\ UNCHANGED os_environ]_vars
\* the driver has returned the error of a block
C9_Witness == DriverReturned /\ ret.kind = "Error" /\ ErrTok \in ret.err

\* C10: whenever the driver is left, the registry has been drained and the cleanup
\* commands have been run after that.
C10_TeardownOnEveryExit ==
    DriverLeft => teardown.drained /\ teardown.cleaned /\ teardown.inOrder

\* C11: after a KeyboardInterrupt the driver enters no further file or path and
\* returns a non-empty error.
C11_InterruptReturnsError ==
    /\ [](pending = "interrupted" => ret.kind = "Error")
    /\ [][(pending = "interrupted" /\ pc = "cleanup") => pc' \in {"done", "raised"}]_vars

\* C12: the registry is drained once per driver run: once the teardown of the
\* finally clause has run, no further path is entered (so nothing is stopped
\* before the blocks of a later path execute).
C12_DrainedOncePerRun ==
    [][teardown.drained => pc' # "file"]_vars

\* C13: registry cleanup attempts to stop every registered entry whether or not
\* some attempt fails, hands no exception to its caller (the finally clause goes
\* on with the cleanup commands) and leaves the registry empty.
C13_CleanupStopsEveryEntry ==
    [][pc = "finally"
         => /\ teardown'.stopped = Cardinality(background_processes)
            /\ teardown'.drained
            /\ background_processes' = {}
            /\ pc' = "cleanup"]_vars

C13_Witness ==
    /\ pc = "cleanup"
    /\ teardown.failed /\ teardown.stopped = 2
    /\ background_processes = {}

\* C14: registry cleanup is idempotent: a cleanup that follows an earlier cleanup
\* with no add in between makes no stop attempt, raises nothing and leaves the
\* registry empty.
C14_CleanupIdempotent ==
    [][pc = "finally" /\ teardown.noAddSince
         => /\ teardown'.stopped = 0 /\ ~teardown'.failed
            /\ background_processes' = {}
            /\ pc' = "cleanup"]_vars

C14_Witness ==
    /\ pc = "cleanup" /\ teardown.again
    /\ teardown.stopped = 0 /\ background_processes = {}

\* C15: when a skip gate of the block holds, running the block returns success and
\* has no side effect: no endpoint was polled, no file was written, no command was
\* spawned and the parent environment is as before.
C15_SkipGateNoSideEffect ==
    /\ [](pc = "ret" /\ lastCore.gate
            => blockRes = {} /\ ~lastCore.polled /\ ~lastCore.wrote)
    /\ [][pc = "block" /\ lastCore'.gate
            => /\ pc' = "ret"
               /\ os_environ' = os_environ
               /\ background_processes' = background_processes
               /\ lastSpawned' = NoSpawn]_vars

\* C16: a block runs endpoint wait, file operation and command execution in this
\* order and stops at the first positive result: a poll that ends without success
\* makes the block return an error with the file untouched and no command loop
\* started; an applied file operation makes it return "" with no command loop
\* started; the command loop is entered only after both.
C16_CoreOrder ==
    /\ [](lastCore.polled /\ ~lastCore.up
            => pc = "ret" /\ ErrTok \in blockRes /\ ~lastCore.wrote /\ ~blk.ran)
    /\ [](lastCore.wrote => pc = "ret" /\ blockRes = {} /\ ~blk.ran)
    /\ [][pc = "block" /\ pc' # "file"
            => /\ lastSpawned' = NoSpawn /\ spawns' = 0
               /\ background_processes' = background_processes
               /\ (pc' = "cmd") = blk'.ran
               /\ blk'.ran => ~lastCore'.wrote /\ (lastCore'.polled => lastCore'.up)]_vars
    /\ [][lastSpawned' # NoSpawn => pc = "spawn" /\ blk.ran]_vars

\* the endpoint did not come up: error, nothing written, no executor
C16_Witness ==
    pc = "ret" /\ lastCore.polled /\ ~lastCore.up /\ ErrTok \in blockRes

\* the endpoint came up and the file operation was applied: "" and no executor
C16_WitnessFileOp ==
    pc = "ret" /\ lastCore.polled /\ lastCore.up /\ lastCore.wrote /\ ~blk.ran

\* C17: poll produces zero or more False values followed by at most one True
\* value, which is the last one; once the elapsed time exceeds max_timeout with no
\* success so far, the sequence ends without a success value.
C17_PollSequence ==
    /\ \A i \in 1..Len(yielded) : yielded[i] => i = Len(yielded) /\ ppc = "done"
    /\ (ppc = "done" /\ timed_out(elapsed, max_timeout))
          => \A i \in 1..Len(yielded) : ~yielded[i]

\* C18: with requests that take no time and time counted in clock ticks, poll
\* terminates whatever the endpoint does, and never later than max_timeout +
\* poll_speed after entry: no attempt is started later than that.
C18_PollTerminates ==
    /\ [](elapsed <= max_timeout + poll_speed)
    /\ <>(ppc = "done")

\* the endpoint never came up and the last attempt was made at max_timeout + poll_speed
C18_Witness ==
    /\ ppc = "done"
    /\ \A i \in 1..Len(yielded) : ~yielded[i]
    /\ Len(yielded) > 1
    /\ elapsed = max_timeout + poll_speed

\* C19: an info line with a token that starts with docci- and, without its
\* =value, is neither a canonical tag nor an alias does not parse: no tag list is
\* returned for it, and the error names an offending tag.
C19_UnknownTagFails ==
    LET known(t)   == \/ t.name \in get_all_tags
                      \/ \E a \in get_aliases : t.name = a[1]
        unknown(t) == t.pre /\ ~known(t)
        offending  == {language_parts[i] : i \in 1..Len(language_parts)}
    IN (\E t \in offending : unknown(t))
          => /\ qpc # "returned"
             /\ qpc = "raised" => \E t \in offending : unknown(t) /\ invalid_tag = strip_value(t)

\* C20: each of the sixteen canonical tag names is valid: a fence that uses one of
\* them, with or without a value, does not fail with an invalid-tag error for it.
C20_CanonicalTagsValid ==
    LET canonical == {"ignore", "background", "delay-after", "delay-per-cmd",
                      "wait-for-endpoint", "if-not-installed", "output-contains",
                      "assert-failure", "os", "if-file-not-exists", "file",
                      "line-insert", "line-replace", "reset-file", "retry",
                      "replace-text"}
    IN /\ \A i \in 1..Len(raw_tags) :
            raw_tags[i].pre /\ raw_tags[i].name \in canonical => is_valid(raw_tags[i])
       /\ qpc = "raised" => invalid_tag.name \notin canonical

\* C21: a fence that uses an alias yields the same typed fields as the same fence
\* with every alias replaced by its canonical tag (value kept).
C21_AliasEquivalence ==
    LET canonical(t) ==
            IF t.pre /\ \E a \in get_aliases : a[1] = t.name
            THEN Token(TRUE, (CHOOSE a \in get_aliases : a[1] = t.name)[2], t.val)
            ELSE t
        with_canonical(ts) == [i \in 1..Len(ts) |-> canonical(ts[i])]
    IN qpc = "built"
          => value = typed_fields(with_canonical(language_parts),
                                  with_canonical(processed_tags))

\* a fence `bash docci-bg` has been parsed into a background block
C21_Witness ==
    /\ qpc = "built"
    /\ \E i \in 1..Len(processed_tags) : processed_tags[i] = Token(TRUE, "bg", FALSE)
    /\ value.background /\ value.command_executor

\* C22: extract returns the value of the first matching tag: an unquoted value
\* whole; of a value that begins with a quote character the text up to the first
\* unescaped matching quote, with backslash-quote read as the quote, two
\* backslashes as one, and any other backslash kept.
C22_ExtractValue ==
    LET RECURSIVE unescaped(_, _)
        unescaped(v, q) ==
            IF v = <<>> \/ v[1] = q THEN <<>>
            ELSE IF v[1] = BS /\ Len(v) >= 2 /\ v[2] \in {q, BS}
                 THEN <<v[2]>> \o unescaped(SubSeq(v, 3, Len(v)), q)
                 ELSE <<v[1]>> \o unescaped(Tail(v), q)
        expected(text) ==
            IF text # <<>> /\ text[1] \in {DQ, SQ}
            THEN unescaped(Tail(text), text[1])
            ELSE text
        matches == {t \in 1..Len(ex_tags) : ex_tags[t].name \in {"output-contains", "contains"}}
    IN xpc = "done" /\ matches # {}
         => LET first == CHOOSE t \in matches : \A u \in matches : t <= u
            IN extracted = <<expected(ex_tags[first].text)>>

\* `docci-output-contains="\""`, then a second matching tag: the quote is returned
C22_Witness ==
    /\ xpc = "done"
    /\ Len(ex_tags) = 2
    /\ ex_tags[1].name = "output-contains" /\ ex_tags[1].text = <<DQ, BS, DQ>>
    /\ ex_tags[2].name = "contains" /\ ex_tags[2].text = <<"x">>
    /\ extracted = <<<<DQ>>>>

\* C23: with file_reset, applying the same file operation a second time leaves
\* the file as the first application left it, whatever the file was before and
\* whatever insert_at_line and replace_lines are.
C23_ResetIdempotent ==
    fpc = "done" /\ fo.file_reset => file = file_after_first

\* both applications wrote the file, with an insertion and a replacement
C23_Witness ==
    /\ fpc = "done" /\ fo.file_reset
    /\ fo_returns = <<TRUE, TRUE>>
    /\ fo.insert_at_line = <<1>> /\ fo.replace_lines = <<1, 2>>
    /\ file = file_after_first /\ Len(file) > 1

\* C24: replace_lines = (N, N) on a file of at least N lines puts the content at
\* line N (1-based) of the result.
C24_ReplaceLineN ==
    [][(/\ fpc = "replace"
        /\ Len(fo.replace_lines) = 2
        /\ fo.replace_lines[1] = fo.replace_lines[2]
        /\ fo.replace_lines[1] >= 1
        /\ Len(lines) >= fo.replace_lines[1]
        /\ \A i \in 1..Len(lines) : Len(lines[i]) = 1)
          => LET N == fo.replace_lines[1]
             IN SubSeq(joined(lines'), N, N + Len(fo.content) - 1) = fo.content]_vars

\* docci-line-replace=2-2 was applied to a file of three lines
C24_Witness ==
    /\ fpc = "write"
    /\ fo.replace_lines = <<2, 2>> /\ fo.insert_at_line = <<>> /\ ~fo.file_reset
    /\ file = OriginalFile(3)
    /\ lines[2] = fo.content

\* C25: replace_lines = (start, end) with 1 <= start <= end replaces exactly the
\* lines start..min(end, number of lines) by the content: the result is the lines
\* before start, the content, and the lines after end.
C25_ReplaceRange ==
    [][(/\ fpc = "replace"
        /\ Len(fo.replace_lines) = 2
        /\ 1 <= fo.replace_lines[1]
        /\ fo.replace_lines[1] <= fo.replace_lines[2])
          => LET start == fo.replace_lines[1]
                 end   == Min(fo.replace_lines[2], Len(lines))
             IN lines' = SubSeq(lines, 1, Min(start - 1, Len(lines)))
                            \o <<fo.content>>
                            \o SubSeq(lines, end + 1, Len(lines))]_vars

\* C26: insert_at_line = N > 0 inserts the content before line N (1-based), a
\* negative N counts from the end with -1 appending, the index is clamped into
\* [0, number of lines], and no existing line is removed or changed.
C26_InsertBeforeLineN ==
    [][(fpc = "insert" /\ fo.insert_at_line # <<>> /\ fo.insert_at_line[1] # 0)
          => LET N == fo.insert_at_line[1]
                 before == IF N > 0 THEN N - 1 ELSE Len(lines) + N + 1
                 index == Max(0, Min(before, Len(lines)))
             IN lines' = list_insert(lines, index, fo.content)]_vars

\* C27: apply returns false and leaves the file as it was when file_name is unset
\* or when if_file_not_exists is set and the path it names exists; otherwise it
\* returns true.
C27_SkipRule ==
    (Len(fo_returns) = 1 /\ fpc = "enter")
       => IF ~fo.file_name \/ (fo.if_file_not_exists /\ marker_exists)
          THEN fo_returns = <<FALSE>> /\ <<file_exists, file>> = file_before
          ELSE fo_returns = <<TRUE>>

\* C28: a fence whose delay tag carries a number with a fraction parses without
\* error, and the block's post_delay (cmd_delay) is exactly the number written.
C28_FractionalDelay ==
    /\ (qpc \in {"built", "value_error"} /\ delay_texts.post # NoText)
          => qpc = "built" /\ delay_manager.post_delay = tenths_of(delay_texts.post)
    /\ (qpc \in {"built", "value_error"} /\ delay_texts.cmd # NoText)
          => qpc = "built" /\ delay_manager.cmd_delay = tenths_of(delay_texts.cmd)

\* C29: without expect_failure, once a foreground command of the block has
\* exited non-zero on its last attempt, no later command of the block is spawned
\* and no env assignment of a later command is merged into os.environ.
C29_BlockStopsAfterFailure ==
    [][("failed" \in statuses /\ ~blk.expect_failure /\ pc = "cmd")
          => (pc' # "spawn" /\ os_environ' = os_environ)]_vars

\* C30: when output_contains is set, the last executed command of a block never
\* returns on exit 0 with attempts remaining while the expected substring is
\* absent from the accumulated output: it is executed again.
C30_RetryOnMissingOutput ==
    [][(pc = "cmd" /\ pc' = "post" /\ blk.output_contains /\ lastEnded = "early0")
          => Needle \in join(all_outputs)]_vars

\* C31: no retry attempt starts without a preceding sleep of cmd_delay seconds
\* (2 seconds when cmd_delay is unset or zero), the first retry included.
C31_SleepBeforeEveryRetry ==
    [][(rpc = "loop" /\ retry_attempt >= 1 /\ retry_attempt' = retry_attempt + 1)
          => last_sleep = <<IF cmd_delay # <<>> /\ cmd_delay[1] > 0 THEN cmd_delay[1] ELSE 2>>]_vars

\* C32: when the run aborts with the invalid-tag error, no command of any block
\* of any file has been spawned.
C32_InvalidTagBeforeAnyCommand ==
    (ret.kind = "Error" /\ InvalidTagTok \in ret.err) => ~spawned_any

\* C33: a command that runs in the background is spawned once and registered,
\* and is reported as success at once: the executor goes on to the next command
\* without a retry, whatever retry_count is, and no error is noted for the block.
C33_BackgroundOnceNoRetry ==
    [][(pc = "spawn" /\ cmd.bg /\ ~cmd.invalid)
          => /\ Cardinality(background_processes') = Cardinality(background_processes) + 1
             /\ lastSpawned' # NoSpawn
             /\ pc' = "cmd" /\ cmd' = NoCmd
             /\ had_error' = had_error /\ response' = response
             /\ statuses' = statuses]_vars
\* a background command of a block with retry_count 1 has been spawned and the
\* executor is at the next command
C33_Witness ==
    /\ pc = "cmd" /\ blk.background /\ blk.retry_count = 1
    /\ lastSpawned # NoSpawn /\ background_processes # {} /\ ~had_error

\* C34: every line the read thread reads is passed to the consumer callback once
\* and in the order read, before the consume thread terminates.
C34_EveryLineConsumed ==
    /\ Len(consumed) <= Len(lines_read)
    /\ \A i \in 1..Len(consumed) : consumed[i] = lines_read[i]
    /\ consume_pc = "done" => consumed = lines_read

\* C35: once the child's output has ended or stop() has been called, the read
\* thread terminates with the handle marked as not running and the consume thread
\* terminates; no step of the main thread waits for either thread.
C35_ThreadsTerminate ==
    /\ (child_exited \/ main_pc \in {"set", "close", "returned"})
          ~> (read_pc = "done" /\ ~is_running)
    /\ (child_exited \/ main_pc \in {"set", "close", "returned"})
          ~> (consume_pc = "done")
    /\ [](main_pc \in {"attach", "registered", "set", "close"} => ENABLED MainThread)
\* both threads have terminated after a stop() of the main thread closed the child
C35_Witness ==
    /\ read_pc = "done" /\ consume_pc = "done" /\ main_pc = "returned"
    /\ ~is_running /\ closes > 0

\* C39: over all calls of stop() close(force=True) is invoked at most once, and
\* once a stop() has returned is_running is false.
C39_CloseAtMostOnce ==
    /\ closes <= 1
    /\ stops_returned => ~is_running

\* C37: for a line `export K=$(cmd)` cmd is executed once per execution of the
\* line: the substitution evaluated in the parent for the environment is not
\* evaluated again by the shell that runs the line.
C37_SubstitutionOnce ==
    (cmd.subst /\ pc \in {"wait", "got"}) => subst_runs = spawns

\* C38: a block whose language is not a scripting language has no command
\* executor, and CodeBlockCore.run_commands returns for it after at most the
\* endpoint wait and the file operation: the command loop is not entered and
\* nothing is spawned or registered.
C38_NoExecutorNoSpawn ==
    [][(pc = "block" /\ pc' # "file" /\ ~lastCore'.executor)
          => /\ pc' = "ret" /\ blk' = NoBlock /\ cmd' = NoCmd
             /\ spawned_any' = spawned_any
             /\ background_processes' = background_processes
             /\ os_environ' = os_environ]_vars
\* a block without executor has waited for its endpoint, which came up, and
\* has returned
C38_Witness ==
    /\ pc = "ret" /\ ~lastCore.executor
    /\ lastCore.polled /\ lastCore.up /\ ~lastCore.wrote /\ ~lastCore.gate

\* C36: the assertions of a block are evaluated before the post-block sleep: a
\* block that returns an error has not slept post_delay first.
C36_AssertionsBeforePostDelay ==
    [][(pc \in {"slept", "unslept"} /\ pc' = "ret" /\ ErrTok \in blockRes')
          => pc = "unslept"]_vars

\* C40 (as stated): every foreground source-style command is reported to the
\* engine with status 0 and empty output.
C40_SourceAlwaysStatusZero ==
    [][(cmd.kind = "source" /\ ~cmd.bg /\ pc \in {"spawn", "wait"} /\ pc' = "got")
          => tmp'.status = "0" /\ tmp'.out = {}]_vars

\* C40 (amended): a source-style command that the shell has run in the foreground
\* is reported with status 0 and empty output whatever the shell's exit status;
\* when the script failed os.environ is left as it was; the engine then moves on
\* without spawning it again, records no failure and no error text for it, and
\* marks an error only under expect_failure.
C40_SourceReportsZero ==
    /\ [][(pc = "wait" /\ cmd.kind = "source" /\ pc' = "got")
             => /\ tmp'.status = "0" /\ tmp'.out = {}
                /\ (tmp'.real = "1" => os_environ' = os_environ)]_vars
    /\ [][(pc = "got" /\ cmd.kind = "source" /\ tmp.exited)
             => /\ pc' # "spawn" /\ cmd' = NoCmd
                /\ spawns = 1
                /\ response' = response
                /\ "failed" \notin statuses' \ statuses
                /\ had_error' = (had_error \/ blk.expect_failure)]_vars

C40_Witness ==
    /\ pc = "got" /\ cmd.kind = "source" /\ tmp.exited
    /\ tmp.real = "1" /\ tmp.status = "0"
    /\ blk.retry_count = 1 /\ ~blk.expect_failure /\ ~had_error
    /\ os_environ[cmd.key] # cmd.val

====
